---- MODULE Spec2Model ----
\* Color value types of color-rs: Cmyk (8-bit channels), Hsv and Xyz (f32
\* channels), their constructors, mutators, raw encodings, interpolation,
\* distance and conversions from and through the Rgb hub.
\*
\* f32 arithmetic is modelled bit-exactly (IEEE-754 binary32, round to nearest
\* even) on finite values in the normal range; subnormals do not occur for the
\* inputs explored and -0.0 is kept as 0.0 (no operation here tells them
\* apart).  u32 values are pairs of 16-bit halves.
EXTENDS Integers, Sequences, FiniteSets, TLC

VARIABLES cmyk, hsv, xyz, op, args, out, panicked

vars == <<cmyk, hsv, xyz, op, args, out, panicked>>

----------------------------------------------------------------------------
\* Bounds of the explored inputs.

\* Cmyk input channels are 0..MaxLow and U8_MAX-MaxLow..U8_MAX.
MaxLow == 1
\* Rgb input channels are 0..MaxRgb, U8_MAX-MaxRgb..U8_MAX and the multiples of RgbStep.
MaxRgb == 3
RgbStep == 15
\* Interpolation amounts are k/AmountDen for k in -1..AmountDen+1, and the doctests' amounts.
AmountDen == 4
\* Hue inputs are the multiples of 45 degrees from -MaxEighths*45 to MaxEighths*45.
MaxEighths == 9
\* Saturation, value, x, y, z inputs are k/RatioDen for k in -1..RatioDen+1.
RatioDen == 2
\* Slopes of the cubic interpolation are -MaxSlope, 0 and MaxSlope.
MaxSlope == 4
\* Widely spread input bytes are the multiples of ByteStep.
ByteStep == 17

U8_MAX == 255

----------------------------------------------------------------------------
\* f32

Abs(x) == IF x < 0 THEN -x ELSE x
Sgn(x) == IF x < 0 THEN -1 ELSE 1

\* A finite f32 is [m, e] with value m * 2^e; m = 0 /\ e = 0, or 2^23 <= |m| < 2^24.
\* A non-finite f32 has e = NonFinite; m = 0 is NaN, m = 1 / -1 is +inf / -inf.
NonFinite == 1000
F32Zero == [m |-> 0, e |-> 0]
F32NaN == [m |-> 0, e |-> NonFinite]
F32Inf(sign) == [m |-> sign, e |-> NonFinite]
is_finite(a) == a.e # NonFinite

RECURSIVE ExcessBits(_)
ExcessBits(n) == IF n < 2^24 THEN 0 ELSE 1 + ExcessBits(n \div 2)

RECURSIVE DeficitBits(_)
DeficitBits(n) == IF n >= 2^23 THEN 0 ELSE 1 + DeficitBits(n * 2)

\* Round-to-nearest-even of sign * (n * 2^e + t), t = 0 unless sticky, then 0 < t < 2^e.
\* A sticky n must be >= 2^24.
F32Round(sign, n, e, sticky) ==
    IF n = 0 THEN F32Zero
    ELSE IF n < 2^24
    THEN LET k == DeficitBits(n) IN [m |-> sign * n * 2^k, e |-> e - k]
    ELSE LET k == ExcessBits(n)
             q == n \div 2^k
             r == n % 2^k
             half == 2^(k - 1)
             up == r > half \/ (r = half /\ (sticky \/ q % 2 = 1))
             q1 == IF up THEN q + 1 ELSE q
         IN IF q1 = 2^24 THEN [m |-> sign * 2^23, e |-> e + k + 1]
                         ELSE [m |-> sign * q1, e |-> e + k]

F32FromInt(n) == F32Round(Sgn(n), Abs(n), 0, FALSE)

F32Neg(a) == [m |-> -a.m, e |-> a.e]

F32Add(a, b) ==
    IF ~is_finite(a) \/ ~is_finite(b)
    THEN IF a = F32NaN \/ b = F32NaN THEN F32NaN
         ELSE IF is_finite(b) THEN a
         ELSE IF is_finite(a) THEN b
         ELSE IF a = b THEN a ELSE F32NaN
    ELSE IF a.m = 0 THEN b
    ELSE IF b.m = 0 THEN a
    ELSE LET hi == IF a.e >= b.e THEN a ELSE b
             lo == IF a.e >= b.e THEN b ELSE a
             d == hi.e - lo.e
         IN IF d <= 3
            THEN LET n == hi.m * 2^d + lo.m IN F32Round(Sgn(n), Abs(n), lo.e, FALSE)
            ELSE LET sh == d - 3
                     lm == Abs(lo.m)
                     bq == IF sh >= 24 THEN 0 ELSE lm \div 2^sh
                     st == IF sh >= 24 THEN TRUE ELSE lm % 2^sh # 0
                     hm == Abs(hi.m) * 8
                     n == IF Sgn(hi.m) = Sgn(lo.m) THEN hm + bq
                          ELSE IF st THEN hm - bq - 1 ELSE hm - bq
                 IN F32Round(Sgn(hi.m), n, hi.e - 3, st)

F32Sub(a, b) == F32Add(a, F32Neg(b))

F32Mul(a, b) ==
    IF ~is_finite(a) \/ ~is_finite(b)
    THEN IF a = F32NaN \/ b = F32NaN \/ a = F32Zero \/ b = F32Zero THEN F32NaN
         ELSE F32Inf(Sgn(a.m) * Sgn(b.m))
    ELSE IF a.m = 0 \/ b.m = 0 THEN F32Zero
    ELSE LET am == Abs(a.m)
             bm == Abs(b.m)
             a1 == am \div 4096
             a0 == am % 4096
             b1 == bm \div 4096
             b0 == bm % 4096
             mid == a1 * b0 + a0 * b1
             low == (mid % 4096) * 4096 + a0 * b0
             high == a1 * b1 + mid \div 4096 + low \div 2^24
             rem == low % 2^24
         IN F32Round(Sgn(a.m) * Sgn(b.m), high * 4 + rem \div 2^22,
                     a.e + b.e + 22, rem % 2^22 # 0)

RECURSIVE LongDiv(_, _, _, _)
LongDiv(r, d, k, q) ==
    IF k = 0 THEN <<q, r>>
    ELSE IF 2 * r >= d THEN LongDiv(2 * r - d, d, k - 1, 2 * q + 1)
    ELSE LongDiv(2 * r, d, k - 1, 2 * q)

F32Div(a, b) ==
    IF ~is_finite(a) \/ ~is_finite(b)
    THEN IF a = F32NaN \/ b = F32NaN \/ (~is_finite(a) /\ ~is_finite(b)) THEN F32NaN
         ELSE IF is_finite(a) THEN F32Zero
         ELSE F32Inf(Sgn(a.m) * Sgn(b.m))
    ELSE IF b.m = 0 THEN (IF a.m = 0 THEN F32NaN ELSE F32Inf(Sgn(a.m)))
    ELSE IF a.m = 0 THEN F32Zero
    ELSE LET am == Abs(a.m)
             bm == Abs(b.m)
             qr == LongDiv(am % bm, bm, 25, am \div bm)
         IN F32Round(Sgn(a.m) * Sgn(b.m), qr[1], a.e - b.e - 25, qr[2] # 0)

\* -1, 0, 1
F32Sign(a) == IF a.m < 0 THEN -1 ELSE IF a.m > 0 THEN 1 ELSE 0

F32Lt(a, b) ==
    /\ a # F32NaN /\ b # F32NaN
    /\ IF ~is_finite(a) \/ ~is_finite(b)
       THEN a # b /\ (a = F32Inf(-1) \/ b = F32Inf(1))
       ELSE IF F32Sign(a) # F32Sign(b) THEN F32Sign(a) < F32Sign(b)
       ELSE IF F32Sign(a) = 0 THEN FALSE
       ELSE IF F32Sign(a) = 1 THEN a.e < b.e \/ (a.e = b.e /\ a.m < b.m)
       ELSE a.e > b.e \/ (a.e = b.e /\ a.m < b.m)

F32Le(a, b) == F32Lt(a, b) \/ (a = b /\ a # F32NaN)

\* x % y of Rust on f32 (fmod): exact, truncated, sign of x. y finite, y > 0.
RECURSIVE ModShift(_, _, _)
ModShift(r, d, k) == IF k = 0 THEN r ELSE ModShift((2 * r) % d, d, k - 1)

F32Rem(a, b) ==
    IF ~is_finite(a) \/ b = F32NaN \/ b.m = 0 THEN F32NaN
    ELSE IF ~is_finite(b) THEN a
    ELSE IF a.m = 0 THEN a
    ELSE IF F32Lt([m |-> Abs(a.m), e |-> a.e], [m |-> Abs(b.m), e |-> b.e]) THEN a
    ELSE LET am == Abs(a.m)
             bm == Abs(b.m)
         IN F32Round(Sgn(a.m), ModShift(am % bm, bm, a.e - b.e), b.e, FALSE)

\* f32::sqrt, correctly rounded: the root is developed bit by bit, 13 bits
\* from the pairs of bits of n (n < 2^26) and 13 more from zero pairs.
RECURSIVE SqrtBits(_, _, _, _)
SqrtBits(n, q, r, i) ==
    IF i < -13 THEN <<q, r>>
    ELSE LET pair == IF i >= 0 THEN (n \div 4^i) % 4 ELSE 0
             r4 == 4 * r + pair
             t == 4 * q + 1
         IN IF r4 >= t THEN SqrtBits(n, 2 * q + 1, r4 - t, i - 1)
                       ELSE SqrtBits(n, 2 * q, r4, i - 1)

F32Sqrt(a) ==
    IF a = F32NaN THEN F32NaN
    ELSE IF a.m = 0 THEN a
    ELSE IF a.m < 0 THEN F32NaN
    ELSE IF ~is_finite(a) THEN a
    ELSE LET odd == a.e % 2 = 1
             n == IF odd THEN 2 * a.m ELSE a.m
             e2 == IF odd THEN a.e - 1 ELSE a.e
             qr == SqrtBits(n, 0, 0, 12)
         IN F32Round(1, qr[1], (e2 \div 2) - 13, qr[2] # 0)

\* Truncation toward zero to an integer (|a| < 2^31).
F32Trunc(a) ==
    IF a.e >= 0 THEN a.m * 2^a.e
    ELSE IF a.e <= -24 THEN 0
    ELSE Sgn(a.m) * (Abs(a.m) \div 2^(-a.e))

F32Abs(a) == [m |-> Abs(a.m), e |-> a.e]

\* A decimal literal num/den (both below 2^24): the nearest f32.
F32Lit(num, den) == F32Div(F32FromInt(num), F32FromInt(den))

\* `x as u8` on f32: truncation toward zero, saturating, NaN to 0.
F32AsU8(a) ==
    IF a = F32NaN THEN 0
    ELSE IF F32Lt(a, F32FromInt(0)) THEN 0
    ELSE IF F32Le(F32FromInt(U8_MAX + 1), a) THEN U8_MAX
    ELSE F32Trunc(a)

\* `let x = v; F(x)`: v is evaluated once, then F is applied to its value.
Let(v, F(_)) == CHOOSE y \in {F(x) : x \in {v}} : TRUE

\* f32 ==: NaN equals nothing.
F32Eq(a, b) == a # F32NaN /\ b # F32NaN /\ a = b

\* f32::sin_cos.  std leaves the last bit to the platform's libm: the value
\* is developed here by reduction modulo pi/2 (in three parts) and the Taylor
\* polynomials, and then moved by libm units in the last place, libm in -1..1.
\* With libm = 0 it gives the doctest value of Hsv::distance bit for bit.
TwoOverPi == [m |-> 10680707, e |-> -24]
HalfPiParts == <<[m |-> 13172736, e |-> -23], [m |-> 16624162, e |-> -35],
                 [m |-> 11821056, e |-> -62]>>

Nudge(x, libm) ==
    IF x.m = 0 \/ ~is_finite(x) THEN x
    ELSE F32Round(Sgn(x.m), Abs(x.m) + libm, x.e, FALSE)

\* The angle less the nearest multiple k of pi/2.
Reduced(x, k) ==
    F32Sub(F32Sub(F32Sub(x, F32Mul(k, HalfPiParts[1])), F32Mul(k, HalfPiParts[2])),
           F32Mul(k, HalfPiParts[3]))

SinPoly(r2) ==
    F32Add(F32Lit(-1, 6), F32Mul(r2,
    F32Add(F32Lit(1, 120), F32Mul(r2,
    F32Add(F32Lit(-1, 5040), F32Mul(r2, F32Lit(1, 362880)))))))

CosPoly(r2) ==
    F32Add(F32Lit(-1, 2), F32Mul(r2,
    F32Add(F32Lit(1, 24), F32Mul(r2,
    F32Add(F32Lit(-1, 720), F32Mul(r2, F32Lit(1, 40320)))))))

\* The sine and cosine of the angle from those of the reduced angle.
Quadrant(k, sin, cos) ==
    LET q == k % 4
    IN IF q = 0 THEN <<sin, cos>>
       ELSE IF q = 1 THEN <<cos, F32Neg(sin)>>
       ELSE IF q = 2 THEN <<F32Neg(sin), F32Neg(cos)>>
       ELSE <<F32Neg(cos), sin>>

F32SinCos(x, libm) ==
    IF ~is_finite(x) THEN <<F32NaN, F32NaN>>
    ELSE
    Let(F32Mul(x, TwoOverPi), LAMBDA y :
    Let(IF y.m >= 0 THEN F32Trunc(F32Add(y, F32Lit(1, 2)))
                    ELSE F32Trunc(F32Sub(y, F32Lit(1, 2))), LAMBDA k :
    Let(Reduced(x, F32FromInt(k)), LAMBDA r :
    Let(F32Mul(r, r), LAMBDA r2 :
    Let(Nudge(F32Add(r, F32Mul(F32Mul(r, r2), SinPoly(r2))), libm), LAMBDA sin :
    Let(Nudge(F32Add(F32FromInt(1), F32Mul(r2, CosPoly(r2))), libm), LAMBDA cos :
        Quadrant(k, sin, cos)))))))

----------------------------------------------------------------------------
\* u32 as two 16-bit halves, value hi * 2^16 + lo.

RECURSIVE BitAnd(_, _)
BitAnd(a, b) ==
    IF a = 0 \/ b = 0 THEN 0
    ELSE (a % 2) * (b % 2) + 2 * BitAnd(a \div 2, b \div 2)

RECURSIVE BitOr(_, _)
BitOr(a, b) ==
    IF a = 0 THEN b
    ELSE IF b = 0 THEN a
    ELSE (IF a % 2 = 1 \/ b % 2 = 1 THEN 1 ELSE 0) + 2 * BitOr(a \div 2, b \div 2)

U32FromU8(b) == [hi |-> 0, lo |-> b]
U32AsU8(a) == a.lo % 2^8
U32And(a, b) == [hi |-> BitAnd(a.hi, b.hi), lo |-> BitAnd(a.lo, b.lo)]
U32Or(a, b) == [hi |-> BitOr(a.hi, b.hi), lo |-> BitOr(a.lo, b.lo)]
U32Shl(a, n) ==
    IF n >= 16 THEN [hi |-> (a.lo * 2^(n - 16)) % 2^16, lo |-> 0]
    ELSE [hi |-> ((a.hi * 2^n) % 2^16) + ((a.lo * 2^n) \div 2^16),
          lo |-> (a.lo * 2^n) % 2^16]
U32Shr(a, n) ==
    IF n >= 16 THEN [hi |-> 0, lo |-> a.hi \div 2^(n - 16)]
    ELSE [hi |-> a.hi \div 2^n, lo |-> a.lo \div 2^n + (a.hi % 2^n) * 2^(16 - n)]
U32Lt(a, b) == a.hi < b.hi \/ (a.hi = b.hi /\ a.lo < b.lo)

----------------------------------------------------------------------------
\* crate::utility and Rgb: not part of the three source files; taken from the
\* specification's description of them.

clamped(v, lo, hi) == IF F32Lt(v, lo) THEN lo ELSE IF F32Lt(hi, v) THEN hi ELSE v

\* Any epsilon below 1/255 gives the same branches on 8-bit channel ratios.
nearly_equal(a, b) == F32Le(F32Abs(F32Sub(a, b)), [m |-> 2^23, e |-> -46])

\* lerp_f32 without the clamp of the amount.
lerp_f32_unclamped(start, end, amount) ==
    F32Add(start, F32Mul(F32Sub(end, start), amount))

lerp_f32(start, end, amount) ==
    LET a == clamped(amount, F32FromInt(0), F32FromInt(1))
    IN F32Add(start, F32Mul(F32Sub(end, start), a))

\* The conversion to u8 is the truncating cast: the doctest of
\* Cmyk::linear_interpolate expects 182 for 255 -> 144 at 0.65 (182.85).
lerp_u8(start, end, amount) ==
    F32AsU8(lerp_f32(F32FromInt(start), F32FromInt(end), amount))

\* The scalar distance of two u8: the absolute difference.
distance(a, b) == Abs(a - b)

\* The cubic Hermite basis at the clamped amount; with slopes 0 it gives the
\* doctests' values of Hsv::cubic_interpolate and Xyz::cubic_interpolate bit for bit.
cerp_f32(start, end, start_slope, end_slope, amount) ==
    LET a == clamped(amount, F32FromInt(0), F32FromInt(1))
        a2 == F32Mul(a, a)
        a3 == F32Mul(a2, a)
        h00 == F32Add(F32Sub(F32Mul(F32FromInt(2), a3), F32Mul(F32FromInt(3), a2)), F32FromInt(1))
        h10 == F32Add(F32Sub(a3, F32Mul(F32FromInt(2), a2)), a)
        h01 == F32Add(F32Mul(F32FromInt(-2), a3), F32Mul(F32FromInt(3), a2))
        h11 == F32Sub(a3, a2)
    IN F32Add(F32Add(F32Add(F32Mul(h00, start), F32Mul(h10, start_slope)),
                     F32Mul(h01, end)),
              F32Mul(h11, end_slope))

\* cerp_f32 cast to the nearest u8 instead of truncated.
cerp_u8_nearest(start, end, start_slope, end_slope, amount) ==
    F32AsU8(F32Add(cerp_f32(F32FromInt(start), F32FromInt(end), start_slope, end_slope,
                            amount), F32Lit(1, 2)))

\* The 8-bit variant casts the f32 value with `as u8`: the doctest of
\* Cmyk::cubic_interpolate has 112 for 112.61 and 40 for 40.91.
cerp_u8(start, end, start_slope, end_slope, amount) ==
    F32AsU8(cerp_f32(F32FromInt(start), F32FromInt(end), start_slope, end_slope, amount))

Rgb_ratios(rgb) ==
    <<F32Div(F32FromInt(rgb.r), F32FromInt(U8_MAX)),
      F32Div(F32FromInt(rgb.g), F32FromInt(U8_MAX)),
      F32Div(F32FromInt(rgb.b), F32FromInt(U8_MAX))>>

----------------------------------------------------------------------------
\* Cmyk

Cmyk_new(cyan, magenta, yellow, key) == [c |-> cyan, m |-> magenta, y |-> yellow, k |-> key]

Cmyk_octets(self) == <<self.c, self.m, self.y, self.k>>

Cmyk_ratios(self) ==
    LET max == F32FromInt(U8_MAX)
    IN <<F32Div(F32FromInt(self.c), max), F32Div(F32FromInt(self.m), max),
         F32Div(F32FromInt(self.y), max), F32Div(F32FromInt(self.k), max)>>

\* The packing with the magenta and yellow shifts exchanged.
Cmyk_hex_swapped(self) ==
    U32Or(U32Or(U32Or(U32Shl(U32FromU8(self.c), 24),
                      U32Shl(U32FromU8(self.m), 8)),
                U32Shl(U32FromU8(self.y), 16)),
          U32FromU8(self.k))

Cmyk_hex(self) ==
    U32Or(U32Or(U32Or(U32Shl(U32FromU8(self.c), 24),
                      U32Shl(U32FromU8(self.m), 16)),
                U32Shl(U32FromU8(self.y), 8)),
          U32FromU8(self.k))

\* The interpolation with the magenta line reading the cyan channels.
Cmyk_linear_interpolate_copied(start, end, amount) ==
    [c |-> lerp_u8(start.c, end.c, amount),
     m |-> lerp_u8(start.c, end.c, amount),
     y |-> lerp_u8(start.y, end.y, amount),
     k |-> lerp_u8(start.k, end.k, amount)]

\* The interpolation with start and end exchanged.
Cmyk_linear_interpolate_exchanged(start, end, amount) ==
    [c |-> lerp_u8(end.c, start.c, amount),
     m |-> lerp_u8(end.m, start.m, amount),
     y |-> lerp_u8(end.y, start.y, amount),
     k |-> lerp_u8(end.k, start.k, amount)]

Cmyk_linear_interpolate(start, end, amount) ==
    [c |-> lerp_u8(start.c, end.c, amount),
     m |-> lerp_u8(start.m, end.m, amount),
     y |-> lerp_u8(start.y, end.y, amount),
     k |-> lerp_u8(start.k, end.k, amount)]

\* The order with the fields compared from k to c.
Cmyk_lt_from_key(a, b) ==
    \/ a.k < b.k
    \/ a.k = b.k /\ a.y < b.y
    \/ a.k = b.k /\ a.y = b.y /\ a.m < b.m
    \/ a.k = b.k /\ a.y = b.y /\ a.m = b.m /\ a.c < b.c

\* derive(PartialOrd, Ord): the fields compared in the order of declaration.
Cmyk_lt(a, b) ==
    \/ a.c < b.c
    \/ a.c = b.c /\ a.m < b.m
    \/ a.c = b.c /\ a.m = b.m /\ a.y < b.y
    \/ a.c = b.c /\ a.m = b.m /\ a.y = b.y /\ a.k < b.k

\* derive(PartialEq, Eq): every field equal.
Cmyk_eq(a, b) == a.c = b.c /\ a.m = b.m /\ a.y = b.y /\ a.k = b.k

\* Cmyk_cubic_interpolate with each channel rounded to the nearest u8.
Cmyk_cubic_interpolate_nearest(start, end, start_slope, end_slope, amount) ==
    [c |-> cerp_u8_nearest(start.c, end.c, start_slope, end_slope, amount),
     m |-> cerp_u8_nearest(start.m, end.m, start_slope, end_slope, amount),
     y |-> cerp_u8_nearest(start.y, end.y, start_slope, end_slope, amount),
     k |-> cerp_u8_nearest(start.k, end.k, start_slope, end_slope, amount)]

Cmyk_cubic_interpolate(start, end, start_slope, end_slope, amount) ==
    [c |-> cerp_u8(start.c, end.c, start_slope, end_slope, amount),
     m |-> cerp_u8(start.m, end.m, start_slope, end_slope, amount),
     y |-> cerp_u8(start.y, end.y, start_slope, end_slope, amount),
     k |-> cerp_u8(start.k, end.k, start_slope, end_slope, amount)]

Cmyk_set_cyan(self, value) == [self EXCEPT !.c = value]
Cmyk_set_magenta(self, value) == [self EXCEPT !.m = value]

\* Cmyk_set_yellow writing the magenta field.
Cmyk_set_yellow_into_magenta(self, value) == [self EXCEPT !.m = value]

Cmyk_set_yellow(self, value) == [self EXCEPT !.y = value]
Cmyk_set_key(self, value) == [self EXCEPT !.k = value]

\* Cmyk_distance with the differences taken in wrapping 8-bit arithmetic.
Cmyk_distance_wrapping(start, end) ==
    LET c == F32FromInt((start.c - end.c) % 2^8)
        m == F32FromInt((start.m - end.m) % 2^8)
        y == F32FromInt((start.y - end.y) % 2^8)
        k == F32FromInt((start.k - end.k) % 2^8)
    IN F32Sqrt(F32Add(F32Add(F32Add(F32Mul(c, c), F32Mul(m, m)), F32Mul(y, y)),
                      F32Mul(k, k)))

Cmyk_distance(start, end) ==
    LET c == F32FromInt(distance(start.c, end.c))
        m == F32FromInt(distance(start.m, end.m))
        y == F32FromInt(distance(start.y, end.y))
        k == F32FromInt(distance(start.k, end.k))
    IN F32Sqrt(F32Add(F32Add(F32Add(F32Mul(c, c), F32Mul(m, m)), F32Mul(y, y)),
                      F32Mul(k, k)))

Cmyk_from_u32(hex) ==
    [c |-> U32AsU8(U32Shr(U32And(hex, [hi |-> 255 * 2^8, lo |-> 0]), 24)),
     m |-> U32AsU8(U32Shr(U32And(hex, [hi |-> 255, lo |-> 0]), 16)),
     y |-> U32AsU8(U32Shr(U32And(hex, [hi |-> 0, lo |-> 255 * 2^8]), 8)),
     k |-> U32AsU8(U32And(hex, [hi |-> 0, lo |-> 255]))]

Cmyk_from_octets(octets) ==
    [c |-> octets[1], m |-> octets[2], y |-> octets[3], k |-> octets[4]]

Cmyk_from_ratios(ratios) ==
    LET pack(x) == F32AsU8(F32Mul(F32FromInt(U8_MAX),
                                  clamped(x, F32FromInt(0), F32FromInt(1))))
    IN [c |-> pack(ratios[1]), m |-> pack(ratios[2]), y |-> pack(ratios[3]),
        k |-> pack(ratios[4])]

\* A fold that keeps the smaller ratio (the comparison reversed).
RatioMaxReversed(ratios) ==
    LET step(max, x) == IF F32Lt(x, max) THEN x ELSE max
    IN step(step(step(ratios[1], ratios[1]), ratios[2]), ratios[3])

\* max of the three ratios: ratios.iter().fold(ratios[0], ...)
RatioMax(ratios) ==
    LET step(max, x) == IF F32Lt(max, x) THEN x ELSE max
    IN step(step(step(ratios[1], ratios[1]), ratios[2]), ratios[3])

\* Cmyk::from(Rgb), with the branch taken and the divisor of the general branch.
Cmyk_from_Rgb_eval(rgb) ==
    LET ratios == Rgb_ratios(rgb)
        max == RatioMax(ratios)
        one == F32FromInt(1)
        half == F32Lit(1, 2)
        u8max == F32FromInt(U8_MAX)
        kn == F32Sub(one, max)
        cn == F32Div(F32Sub(F32Sub(one, ratios[1]), kn), max)
        mn == F32Div(F32Sub(F32Sub(one, ratios[2]), kn), max)
        yn == F32Div(F32Sub(F32Sub(one, ratios[3]), kn), max)
    IN IF nearly_equal(max, F32FromInt(0))
       THEN [val |-> [c |-> 0, m |-> 0, y |-> 0, k |-> 255], branch |-> "black", divisors |-> {}]
       ELSE [val |-> [c |-> F32AsU8(F32Add(F32Mul(cn, u8max), half)),
                      m |-> F32AsU8(F32Add(F32Mul(mn, u8max), half)),
                      y |-> F32AsU8(F32Add(F32Mul(yn, u8max), half)),
                      k |-> F32AsU8(F32Add(F32Mul(kn, u8max), half))],
             branch |-> "general", divisors |-> {max}]

\* The complement of each channel, with no black generation.
Cmyk_from_Rgb_no_key(rgb) ==
    [c |-> U8_MAX - rgb.r, m |-> U8_MAX - rgb.g, y |-> U8_MAX - rgb.b, k |-> 0]

Cmyk_from_Rgb(rgb) == Cmyk_from_Rgb_eval(rgb).val

\* Rgb::from(Cmyk) is not part of the three source files: the standard inverse
\* r = 255 (1 - c)(1 - k) on the ratios, packed to 8 bits by round-half-up
\* ("half_up") or by the truncating cast ("trunc").
Rgb_from_Cmyk(v, pack) ==
    LET ratios == Cmyk_ratios(v)
        one == F32FromInt(1)
        kn == F32Sub(one, ratios[4])
        chan(x) == LET f == F32Mul(F32FromInt(U8_MAX), F32Mul(F32Sub(one, x), kn))
                   IN IF pack = "half_up" THEN F32AsU8(F32Add(f, F32Lit(1, 2))) ELSE F32AsU8(f)
    IN [r |-> chan(ratios[1]), g |-> chan(ratios[2]), b |-> chan(ratios[3])]

----------------------------------------------------------------------------
\* Hsv.  A method that can panic returns [panic, val]: val is the color when
\* panic is FALSE.

\* Hsv_set_hue without the reduction modulo 360.
Hsv_set_hue_unwrapped(self, hue) ==
    IF ~is_finite(hue) THEN [panic |-> TRUE, val |-> self]
    ELSE [panic |-> FALSE, val |-> [self EXCEPT !.h = hue]]

\* Hsv_set_hue with the assertion after the assignment.
Hsv_set_hue_write_first(self, hue) ==
    [panic |-> ~is_finite(hue), val |-> [self EXCEPT !.h = F32Rem(hue, F32FromInt(360))]]

Hsv_set_hue(self, hue) ==
    IF ~is_finite(hue) THEN [panic |-> TRUE, val |-> self]
    ELSE [panic |-> FALSE, val |-> [self EXCEPT !.h = F32Rem(hue, F32FromInt(360))]]

Hsv_set_saturation(self, saturation) ==
    [self EXCEPT !.s = clamped(saturation, F32FromInt(0), F32FromInt(1))]

Hsv_set_value(self, value) ==
    [self EXCEPT !.v = clamped(value, F32FromInt(0), F32FromInt(1))]

Hsv_new(hue, saturation, value) ==
    LET hsv0 == [h |-> F32Zero, s |-> F32Zero, v |-> F32Zero]
        hsv1 == Hsv_set_hue(hsv0, hue)
    IN IF hsv1.panic THEN hsv1
       ELSE [panic |-> FALSE,
             val |-> Hsv_set_value(Hsv_set_saturation(hsv1.val, saturation), value)]

Hsv_components(self) == <<self.h, self.s, self.v>>

\* Hsv_linear_interpolate without the clamp of the amount.
Hsv_linear_interpolate_unclamped(start, end, amount) ==
    [h |-> lerp_f32_unclamped(start.h, end.h, amount),
     s |-> lerp_f32_unclamped(start.s, end.s, amount),
     v |-> lerp_f32_unclamped(start.v, end.v, amount)]

Hsv_linear_interpolate(start, end, amount) ==
    [h |-> lerp_f32(start.h, end.h, amount),
     s |-> lerp_f32(start.s, end.s, amount),
     v |-> lerp_f32(start.v, end.v, amount)]

Hsv_cubic_interpolate(start, end, start_slope, end_slope, amount) ==
    [h |-> cerp_f32(start.h, end.h, start_slope, end_slope, amount),
     s |-> cerp_f32(start.s, end.s, start_slope, end_slope, amount),
     v |-> cerp_f32(start.v, end.v, start_slope, end_slope, amount)]

\* Hsv_distance with the point of a color taken on the unit circle, whatever
\* its value.
Hsv_distance_unscaled(start, end, libm) ==
    Let(F32SinCos(start.h, libm), LAMBDA sh :
    Let(F32SinCos(end.h, libm), LAMBDA eh :
    Let(F32Sub(start.s, end.s), LAMBDA s :
    Let(F32Sub(F32Mul(sh[1], F32FromInt(2)), F32Mul(eh[1], F32FromInt(2))), LAMBDA x :
    Let(F32Sub(F32Mul(sh[2], F32FromInt(2)), F32Mul(eh[2], F32FromInt(2))), LAMBDA y :
        F32Div(F32Sqrt(F32Add(F32Add(F32Mul(s, s), F32Mul(x, x)), F32Mul(y, y))),
               F32Sqrt(F32FromInt(6))))))))

Hsv_distance(start, end, libm) ==
    Let(F32SinCos(start.h, libm), LAMBDA sh :
    Let(F32SinCos(end.h, libm), LAMBDA eh :
    Let(F32Sub(start.s, end.s), LAMBDA s :
    Let(F32Sub(F32Mul(F32Mul(start.v, sh[1]), F32FromInt(2)),
               F32Mul(F32Mul(end.v, eh[1]), F32FromInt(2))), LAMBDA x :
    Let(F32Sub(F32Mul(F32Mul(start.v, sh[2]), F32FromInt(2)),
               F32Mul(F32Mul(end.v, eh[2]), F32FromInt(2))), LAMBDA y :
        F32Div(F32Sqrt(F32Add(F32Add(F32Mul(s, s), F32Mul(x, x)), F32Mul(y, y))),
               F32Sqrt(F32FromInt(6))))))))

Hsv_from_components(components) == Hsv_new(components[1], components[2], components[3])

\* The fold of Hsv::from(Rgb): <<min, max, index of max, count>>.
\* A fold step that keeps the first ratio as minimum and maximum.
MinMaxStepKeep(acc, x) == <<acc[1], acc[2], acc[3], acc[4] + 1>>

MinMaxStep(acc, x) ==
    IF F32Lt(x, acc[1]) /\ ~F32Lt(acc[2], x) THEN <<x, acc[2], acc[3], acc[4] + 1>>
    ELSE IF ~F32Lt(x, acc[1]) /\ F32Lt(acc[2], x) THEN <<acc[1], x, acc[4], acc[4] + 1>>
    ELSE <<acc[1], acc[2], acc[3], acc[4] + 1>>

MinMaxIndex(ratios) ==
    Let(MinMaxStep(<<ratios[1], ratios[1], 0, 0>>, ratios[1]), LAMBDA acc1 :
    Let(MinMaxStep(acc1, ratios[2]), LAMBDA acc2 :
    MinMaxStep(acc2, ratios[3])))

\* The hue of the sector of the maximum, in degrees.
SectorHue(ratios, max_index, delta) ==
    LET sector == IF max_index = 0
                  THEN F32Rem(F32Div(F32Sub(ratios[2], ratios[3]), delta), F32FromInt(6))
                  ELSE IF max_index = 1
                  THEN F32Add(F32Div(F32Sub(ratios[3], ratios[1]), delta), F32FromInt(2))
                  ELSE F32Add(F32Div(F32Sub(ratios[1], ratios[2]), delta), F32FromInt(4))
    IN F32Mul(F32FromInt(60), sector)

\* Hsv::from(Rgb), with the branches taken.
Hsv_from_Rgb_eval(rgb) ==
    Let(Rgb_ratios(rgb), LAMBDA ratios :
    Let(MinMaxIndex(ratios), LAMBDA mm :
    Let(F32Sub(mm[2], mm[1]), LAMBDA delta :
        LET max == mm[2]
            max_index == mm[3]
            zero == F32FromInt(0)
        IN IF nearly_equal(delta, zero)
           THEN [val |-> [h |-> zero, s |-> zero, v |-> max], panic |-> FALSE,
                 branch |-> "gray", max_index |-> max_index, max_near_zero |-> FALSE]
           ELSE Let(IF nearly_equal(max, zero) THEN zero ELSE F32Div(delta, max), LAMBDA s :
                Let(SectorHue(ratios, max_index, delta), LAMBDA h :
                Let(Hsv_new(h, s, max), LAMBDA new :
                    [val |-> new.val, panic |-> new.panic,
                     branch |-> "color", max_index |-> max_index,
                     max_near_zero |-> nearly_equal(max, zero)]))))))

Hsv_from_Rgb(rgb) == Hsv_from_Rgb_eval(rgb).val

----------------------------------------------------------------------------
\* Xyz

Xyz_set_x(self, x) == [self EXCEPT !.x = clamped(x, F32FromInt(0), F32FromInt(1))]
Xyz_set_y(self, y) == [self EXCEPT !.y = clamped(y, F32FromInt(0), F32FromInt(1))]
Xyz_set_z(self, z) == [self EXCEPT !.z = clamped(z, F32FromInt(0), F32FromInt(1))]

Xyz_new(x, y, z) ==
    Xyz_set_z(Xyz_set_y(Xyz_set_x([x |-> F32Zero, y |-> F32Zero, z |-> F32Zero], x), y), z)

Xyz_components(self) == <<self.x, self.y, self.z>>

Xyz_linear_interpolate(start, end, amount) ==
    [x |-> lerp_f32(start.x, end.x, amount),
     y |-> lerp_f32(start.y, end.y, amount),
     z |-> lerp_f32(start.z, end.z, amount)]

Xyz_cubic_interpolate(start, end, start_slope, end_slope, amount) ==
    [x |-> cerp_f32(start.x, end.x, start_slope, end_slope, amount),
     y |-> cerp_f32(start.y, end.y, start_slope, end_slope, amount),
     z |-> cerp_f32(start.z, end.z, start_slope, end_slope, amount)]

\* Xyz_distance with the first difference taken across components.
Xyz_distance_crossed(start, end) ==
    LET x == F32Sub(start.x, end.y)
        y == F32Sub(start.y, end.y)
        z == F32Sub(start.z, end.z)
    IN F32Sqrt(F32Add(F32Add(F32Mul(x, x), F32Mul(y, y)), F32Mul(z, z)))

Xyz_distance(start, end) ==
    LET x == F32Sub(start.x, end.x)
        y == F32Sub(start.y, end.y)
        z == F32Sub(start.z, end.z)
    IN F32Sqrt(F32Add(F32Add(F32Mul(x, x), F32Mul(y, y)), F32Mul(z, z)))

Xyz_from_components(components) ==
    [x |-> components[1], y |-> components[2], z |-> components[3]]

\* The rows of the matrix of Xyz::from(Rgb), in units of 10^-7.
MatrixX == <<4124564, 3575761, 1804375>>
MatrixY == <<2126729, 7151522, 721750>>
MatrixZ == <<193339, 1191920, 9503041>>
Coefficient(n) == F32Lit(n, 10^7)

\* Xyz_from_Rgb with the matrix transposed.
Xyz_from_Rgb_transposed(rgb) ==
    LET m == Rgb_ratios(rgb)
        column(i) == F32Add(F32Add(F32Mul(m[1], Coefficient(MatrixX[i])),
                                   F32Mul(m[2], Coefficient(MatrixY[i]))),
                            F32Mul(m[3], Coefficient(MatrixZ[i])))
    IN [x |-> column(1), y |-> column(2), z |-> column(3)]

Xyz_from_Rgb(rgb) ==
    LET m == Rgb_ratios(rgb)
        row(k) == F32Add(F32Add(F32Mul(m[1], Coefficient(k[1])),
                                F32Mul(m[2], Coefficient(k[2]))),
                         F32Mul(m[3], Coefficient(k[3])))
    IN [x |-> row(MatrixX), y |-> row(MatrixY), z |-> row(MatrixZ)]

----------------------------------------------------------------------------
\* Inputs explored.

LowHigh == (0..MaxLow) \cup ((U8_MAX - MaxLow)..U8_MAX)
WideBytes == {b \in 0..U8_MAX : b % ByteStep = 0}
Pair(a, b) == Cmyk_new(a, b, U8_MAX - a, U8_MAX - b)

\* The colors and the amount of the doctest of Cmyk::linear_interpolate.
DocLerpStart == Cmyk_new(127, 255, 64, 100)
DocLerpEnd == Cmyk_new(15, 144, 99, 140)
DocLerpAmount == <<65, 100>>

CmykInputs ==
    {Cmyk_new(c, m, y, k) : c \in LowHigh, m \in LowHigh, y \in LowHigh, k \in LowHigh}
        \cup {Pair(b, b) : b \in WideBytes} \cup {DocLerpStart, DocLerpEnd}
LerpStarts == {Pair(a, b) : a \in LowHigh \cup WideBytes, b \in LowHigh} \cup {DocLerpStart}
LerpEnds == {Pair(b, U8_MAX - b) : b \in LowHigh \cup WideBytes} \cup {DocLerpEnd}

\* An amount <<num, den>> is the f32 literal num/den.
Amounts == {<<k, AmountDen>> : k \in (-1)..(AmountDen + 1)} \cup {DocLerpAmount}
Amount(t) == F32Lit(t[1], t[2])

RgbVals == {n \in 0..U8_MAX : n <= MaxRgb \/ n >= U8_MAX - MaxRgb \/ n % RgbStep = 0}
RgbInputs == {[r |-> r, g |-> g, b |-> b] : r \in RgbVals, g \in RgbVals, b \in RgbVals}

\* The calls that build a Cmyk from raw inputs: <<function, arguments...>>.
CmykCalls ==
    {<<"Cmyk::new", v.c, v.m, v.y, v.k>> : v \in CmykInputs}
        \cup {<<"Cmyk::from<u32>", Cmyk_hex(v)>> : v \in CmykInputs}
        \cup {<<"Cmyk::from<[u8; 4]>", Cmyk_octets(v)>> : v \in CmykInputs}
        \cup {<<"Cmyk::linear_interpolate", s, e, t>> : s \in LerpStarts, e \in LerpEnds, t \in Amounts}

\* Colors whose largest channel takes every value of a u8.
MaxSweep == {[r |-> n \div 2, g |-> n, b |-> n \div 3] : n \in 0..U8_MAX}
CmykRgbCalls == {<<"Cmyk::from<Rgb>", rgb>> : rgb \in RgbInputs \cup MaxSweep}

----------------------------------------------------------------------------
\* State: the current value of each type (Default::default() at first), the
\* last operation with its inputs (at first "call", with the call to make), and
\* the last result that is not a color of the three types.

Start(calls) ==
    /\ cmyk = [c |-> 0, m |-> 0, y |-> 0, k |-> 0]
    /\ hsv = [h |-> F32Zero, s |-> F32Zero, v |-> F32Zero]
    /\ xyz = [x |-> F32Zero, y |-> F32Zero, z |-> F32Zero]
    /\ op = "call"
    /\ args \in calls
    /\ out = <<>>
    /\ panicked = FALSE

Calling(f) == op = "call" /\ args[1] = f

CmykNew ==
    /\ Calling("Cmyk::new")
    /\ cmyk' = Cmyk_new(args[2], args[3], args[4], args[5])
    /\ op' = args[1]
    /\ UNCHANGED <<hsv, xyz, args, out, panicked>>

CmykFromU32 ==
    /\ Calling("Cmyk::from<u32>")
    /\ cmyk' = Cmyk_from_u32(args[2])
    /\ op' = args[1]
    /\ UNCHANGED <<hsv, xyz, args, out, panicked>>

CmykFromOctets ==
    /\ Calling("Cmyk::from<[u8; 4]>")
    /\ cmyk' = Cmyk_from_octets(args[2])
    /\ op' = args[1]
    /\ UNCHANGED <<hsv, xyz, args, out, panicked>>

CmykLinearInterpolate ==
    /\ Calling("Cmyk::linear_interpolate")
    /\ cmyk' = Cmyk_linear_interpolate(args[2], args[3], Amount(args[4]))
    /\ op' = args[1]
    /\ UNCHANGED <<hsv, xyz, args, out, panicked>>

\* out: the packed value of the current color.
CmykHex ==
    /\ op \notin {"call", "Cmyk::hex"}
    /\ out' = Cmyk_hex(cmyk)
    /\ op' = "Cmyk::hex"
    /\ args' = <<"Cmyk::hex", cmyk>>
    /\ UNCHANGED <<cmyk, hsv, xyz, panicked>>

\* out: the four octets of the current color.
CmykOctets ==
    /\ op \notin {"call", "Cmyk::octets"}
    /\ out' = Cmyk_octets(cmyk)
    /\ op' = "Cmyk::octets"
    /\ args' = <<"Cmyk::octets", cmyk>>
    /\ UNCHANGED <<cmyk, hsv, xyz, panicked>>

\* out: the branch taken and the divisors used.
CmykFromRgb ==
    /\ Calling("Cmyk::from<Rgb>")
    /\ cmyk' = Cmyk_from_Rgb(args[2])
    /\ out' = [branch |-> Cmyk_from_Rgb_eval(args[2]).branch,
               divisors |-> Cmyk_from_Rgb_eval(args[2]).divisors]
    /\ op' = args[1]
    /\ UNCHANGED <<hsv, xyz, args, panicked>>

\* out: Rgb::from(cmyk) of a color made by Cmyk::from(Rgb); args keeps that Rgb.
RgbFromCmyk(pack) ==
    /\ op = "Cmyk::from<Rgb>"
    /\ out' = Rgb_from_Cmyk(cmyk, pack)
    /\ op' = "Rgb::from<Cmyk>"
    /\ UNCHANGED <<cmyk, hsv, xyz, args, panicked>>

NextCmyk ==
    \/ CmykNew
    \/ CmykFromU32
    \/ CmykFromOctets
    \/ CmykLinearInterpolate
    \/ CmykHex
    \/ CmykOctets

NextCmykRgb ==
    \/ CmykFromRgb
    \/ \E pack \in {"half_up", "trunc"} : RgbFromCmyk(pack)

SpecCmyk == Start(CmykCalls) /\ [][NextCmyk]_vars
SpecCmykRgb == Start(CmykRgbCalls) /\ [][NextCmykRgb]_vars

----------------------------------------------------------------------------
\* Inputs of Hsv and Xyz.  An f32 input is a literal <<num, den>>; den = 0
\* gives the non-finite values: <<0, 0>> is NaN, <<1, 0>> and <<-1, 0>> the
\* infinities.

Lit(t) == F32Lit(t[1], t[2])

\* The hues of the doctests of Hsv (new, set_hue, the interpolations).
DocHues == {<<134, 1>>, <<267, 1>>, <<322, 1>>}
FiniteHues ==
    {<<45 * q, 1>> : q \in (-MaxEighths)..MaxEighths} \cup DocHues
        \cup {<<361, 1>>, <<1441, 2>>}
NonFiniteInputs == {<<0, 0>>, <<1, 0>>, <<-1, 0>>}
HueInputs == FiniteHues \cup NonFiniteInputs

UnitRatios == {<<k, RatioDen>> : k \in 0..RatioDen}
RatioInputs == {<<k, RatioDen>> : k \in (-1)..(RatioDen + 1)} \cup {<<23, 100>>, <<55, 100>>}

SlopeInputs == {<<-MaxSlope, 1>>, <<0, 1>>, <<MaxSlope, 1>>}

\* Colors that Hsv::new and Xyz::new make.
HsvColors ==
    {Hsv_new(Lit(h), Lit(s), Lit(v)).val :
        h \in {<<0, 1>>, <<-45, 1>>} \cup DocHues, s \in UnitRatios, v \in {<<1, 1>>, <<55, 100>>}}
HsvEnds == {Hsv_new(Lit(h), Lit(<<1, 2>>), Lit(v)).val : h \in DocHues, v \in UnitRatios}
XyzColors ==
    {Xyz_new(Lit(x), Lit(y), Lit(z)) : x \in UnitRatios, y \in UnitRatios, z \in UnitRatios}
XyzEnds == {Xyz_new(Lit(x), Lit(<<1, 2>>), Lit(z)) : x \in UnitRatios, z \in UnitRatios}

HsvCalls ==
    {<<"Hsv::new", h, s, v>> : h \in HueInputs, s \in RatioInputs, v \in RatioInputs}
        \cup {<<"Hsv::from<[f32; 3]>", <<h, s, v>>>> :
                 h \in HueInputs, s \in RatioInputs, v \in RatioInputs}
        \cup {<<"Hsv::set_hue", self, h>> : self \in HsvColors, h \in HueInputs}
        \cup {<<"Hsv::set_saturation", self, s>> : self \in HsvColors, s \in RatioInputs}
        \cup {<<"Hsv::set_value", self, v>> : self \in HsvColors, v \in RatioInputs}
        \cup {<<"Hsv::linear_interpolate", s, e, t>> :
                 s \in HsvColors, e \in HsvEnds, t \in Amounts}
        \cup {<<"Hsv::cubic_interpolate", s, e, ss, es, t>> :
                 s \in HsvColors, e \in HsvEnds, ss \in SlopeInputs, es \in SlopeInputs,
                 t \in Amounts}

HsvRgbCalls == {<<"Hsv::from<Rgb>", rgb>> : rgb \in RgbInputs}

XyzCalls ==
    {<<"Xyz::new", x, y, z>> : x \in RatioInputs, y \in RatioInputs, z \in RatioInputs}
        \cup {<<"Xyz::from<[f32; 3]>", <<x, y, z>>>> :
                 x \in RatioInputs, y \in RatioInputs, z \in RatioInputs}
        \cup {<<"Xyz::from<Rgb>", rgb>> : rgb \in RgbInputs}
        \cup {<<"Xyz::set_x", self, x>> : self \in XyzColors, x \in RatioInputs}
        \cup {<<"Xyz::set_y", self, y>> : self \in XyzColors, y \in RatioInputs}
        \cup {<<"Xyz::set_z", self, z>> : self \in XyzColors, z \in RatioInputs}
        \cup {<<"Xyz::linear_interpolate", s, e, t>> :
                 s \in XyzColors, e \in XyzEnds, t \in Amounts}
        \cup {<<"Xyz::cubic_interpolate", s, e, ss, es, t>> :
                 s \in XyzColors, e \in XyzEnds, ss \in SlopeInputs, es \in SlopeInputs,
                 t \in Amounts}

----------------------------------------------------------------------------
\* Hsv actions.  A call that panics leaves no value: hsv keeps its value and
\* panicked becomes TRUE.

HsvReturn(result) ==
    /\ hsv' = (IF result.panic THEN hsv ELSE result.val)
    /\ panicked' = result.panic
    /\ op' = args[1]
    /\ UNCHANGED <<cmyk, xyz, args, out>>

HsvNew ==
    /\ Calling("Hsv::new")
    /\ HsvReturn(Hsv_new(Lit(args[2]), Lit(args[3]), Lit(args[4])))

HsvFromComponents ==
    /\ Calling("Hsv::from<[f32; 3]>")
    /\ HsvReturn(Hsv_from_components(<<Lit(args[2][1]), Lit(args[2][2]), Lit(args[2][3])>>))

\* out: the branch taken, the index of the maximum, and the test of the
\* saturation branch.
HsvFromRgb ==
    /\ Calling("Hsv::from<Rgb>")
    /\ \E r \in {Hsv_from_Rgb_eval(args[2])} :
          /\ hsv' = (IF r.panic THEN hsv ELSE r.val)
          /\ panicked' = r.panic
          /\ out' = [branch |-> r.branch, max_index |-> r.max_index,
                     max_near_zero |-> r.max_near_zero]
    /\ op' = args[1]
    /\ UNCHANGED <<cmyk, xyz, args>>

\* hsv: the receiver as the call leaves it, also when the call panics.
HsvSetHue ==
    /\ Calling("Hsv::set_hue")
    /\ \E r \in {Hsv_set_hue(args[2], Lit(args[3]))} :
          /\ hsv' = r.val
          /\ panicked' = r.panic
    /\ op' = args[1]
    /\ UNCHANGED <<cmyk, xyz, args, out>>

HsvSetSaturation ==
    /\ Calling("Hsv::set_saturation")
    /\ HsvReturn([panic |-> FALSE, val |-> Hsv_set_saturation(args[2], Lit(args[3]))])

HsvSetValue ==
    /\ Calling("Hsv::set_value")
    /\ HsvReturn([panic |-> FALSE, val |-> Hsv_set_value(args[2], Lit(args[3]))])

HsvLinearInterpolate ==
    /\ Calling("Hsv::linear_interpolate")
    /\ HsvReturn([panic |-> FALSE,
                  val |-> Hsv_linear_interpolate(args[2], args[3], Amount(args[4]))])

HsvCubicInterpolate ==
    /\ Calling("Hsv::cubic_interpolate")
    /\ HsvReturn([panic |-> FALSE,
                  val |-> Hsv_cubic_interpolate(args[2], args[3], Lit(args[4]),
                                                Lit(args[5]), Amount(args[6]))])

\* out: the components of the current color.
HsvComponents ==
    /\ op \notin {"call", "Hsv::components"}
    /\ ~panicked
    /\ out' = Hsv_components(hsv)
    /\ op' = "Hsv::components"
    /\ args' = <<"Hsv::components", hsv>>
    /\ UNCHANGED <<cmyk, hsv, xyz, panicked>>

NextHsv ==
    \/ HsvNew
    \/ HsvFromComponents
    \/ HsvSetHue
    \/ HsvSetSaturation
    \/ HsvSetValue
    \/ HsvLinearInterpolate
    \/ HsvCubicInterpolate
    \/ HsvComponents

NextHsvRgb ==
    \/ HsvFromRgb
    \/ HsvComponents

SpecHsv == Start(HsvCalls) /\ [][NextHsv]_vars
SpecHsvRgb == Start(HsvRgbCalls) /\ [][NextHsvRgb]_vars

----------------------------------------------------------------------------
\* Xyz actions

XyzReturn(result) ==
    /\ xyz' = result
    /\ op' = args[1]
    /\ UNCHANGED <<cmyk, hsv, args, out, panicked>>

XyzNew ==
    /\ Calling("Xyz::new")
    /\ XyzReturn(Xyz_new(Lit(args[2]), Lit(args[3]), Lit(args[4])))

XyzFromComponents ==
    /\ Calling("Xyz::from<[f32; 3]>")
    /\ XyzReturn(Xyz_from_components(<<Lit(args[2][1]), Lit(args[2][2]), Lit(args[2][3])>>))

XyzFromRgb ==
    /\ Calling("Xyz::from<Rgb>")
    /\ XyzReturn(Xyz_from_Rgb(args[2]))

XyzSetX ==
    /\ Calling("Xyz::set_x")
    /\ XyzReturn(Xyz_set_x(args[2], Lit(args[3])))

XyzSetY ==
    /\ Calling("Xyz::set_y")
    /\ XyzReturn(Xyz_set_y(args[2], Lit(args[3])))

XyzSetZ ==
    /\ Calling("Xyz::set_z")
    /\ XyzReturn(Xyz_set_z(args[2], Lit(args[3])))

XyzLinearInterpolate ==
    /\ Calling("Xyz::linear_interpolate")
    /\ XyzReturn(Xyz_linear_interpolate(args[2], args[3], Amount(args[4])))

XyzCubicInterpolate ==
    /\ Calling("Xyz::cubic_interpolate")
    /\ XyzReturn(Xyz_cubic_interpolate(args[2], args[3], Lit(args[4]), Lit(args[5]),
                                       Amount(args[6])))

\* out: the components of the current color.
XyzComponents ==
    /\ op \notin {"call", "Xyz::components"}
    /\ out' = Xyz_components(xyz)
    /\ op' = "Xyz::components"
    /\ args' = <<"Xyz::components", xyz>>
    /\ UNCHANGED <<cmyk, hsv, xyz, panicked>>

NextXyz ==
    \/ XyzNew
    \/ XyzFromComponents
    \/ XyzFromRgb
    \/ XyzSetX
    \/ XyzSetY
    \/ XyzSetZ
    \/ XyzLinearInterpolate
    \/ XyzCubicInterpolate
    \/ XyzComponents

SpecXyz == Start(XyzCalls) /\ [][NextXyz]_vars

----------------------------------------------------------------------------
\* Ranges of the components of Hsv (SpecHsv, SpecHsvRgb) and Xyz (SpecXyz)

InRange(lo, x, hi) == F32Le(F32FromInt(lo), x) /\ F32Le(x, F32FromInt(hi))
HueWrapped(h) == F32Le(F32FromInt(0), h) /\ F32Lt(h, F32FromInt(360))

\* C1: after Hsv::new, Hsv::set_hue and Hsv::from([f32; 3]) with a finite hue,
\* negative ones included, the stored hue is in [0, 360).
C1_HueInRange ==
    (op \in {"Hsv::new", "Hsv::set_hue", "Hsv::from<[f32; 3]>"} /\ ~panicked)
        => HueWrapped(hsv.h)

\* C2: every Xyz that new, the setters, the conversions and the interpolations
\* produce has x, y and z in [0, 1].
C2_XyzInUnitRange ==
    op # "call" => /\ InRange(0, xyz.x, 1)
                   /\ InRange(0, xyz.y, 1)
                   /\ InRange(0, xyz.z, 1)

\* C3: after every operation of Hsv, cubic_interpolate with any slopes
\* included, saturation and value are in [0, 1].
C3_SaturationValueInUnitRange ==
    (op # "call" /\ ~panicked) => InRange(0, hsv.s, 1) /\ InRange(0, hsv.v, 1)

\* C4: Hsv::from(Rgb) gives a hue in [0, 360); when red is the maximum and
\* green < blue, the hue is in [300, 360).
C4_FromRgbHueInRange ==
    op = "Hsv::from<Rgb>" =>
        /\ HueWrapped(hsv.h)
        /\ (out.branch = "color" /\ out.max_index = 0 /\ args[2].g < args[2].b)
               => F32Le(F32FromInt(300), hsv.h)

----------------------------------------------------------------------------
\* Properties of Cmyk::from(Rgb) (SpecCmykRgb)

Black == [r |-> 0, g |-> 0, b |-> 0]
Max3(a, b, c) == IF a >= b /\ a >= c THEN a ELSE IF b >= c THEN b ELSE c
RgbMax(rgb) == Max3(rgb.r, rgb.g, rgb.b)

\* C5: Cmyk::from(Rgb) maps black, and only black, through the degenerate
\* branch, to exactly (0, 0, 0, 255); every other Rgb takes the general branch,
\* whose divisor is finite and strictly positive.
C5_BlackIsTheOnlyDegenerateCase ==
    op = "Cmyk::from<Rgb>" =>
        /\ args[2] = Black =>
              /\ cmyk = Cmyk_new(0, 0, 0, 255)
              /\ out.branch = "black"
              /\ out.divisors = {}
        /\ args[2] # Black =>
              /\ out.branch = "general"
              /\ out.divisors # {}
              /\ \A d \in out.divisors : is_finite(d) /\ d.m > 0

C5_Witness ==
    /\ op = "Cmyk::from<Rgb>"
    /\ args[2] = Black
    /\ cmyk = Cmyk_new(0, 0, 0, 255)
    /\ out.branch = "black"

\* floor(255 * (max - channel) / max + 1/2), in exact arithmetic.
HalfUp(channel, max) == (2 * U8_MAX * (max - channel) + max) \div (2 * max)

\* C6: for a non-black Rgb, k = floor(255 (1 - max) + 0.5) and each of c, m, y
\* is floor(255 ((1 - channel - (1 - max)) / max) + 0.5), on the exact ratios
\* channel/255, and every channel is in 0..255.
C6_ChannelsAreRoundHalfUp ==
    (op = "Cmyk::from<Rgb>" /\ args[2] # Black) =>
        LET rgb == args[2]
            max == RgbMax(rgb)
        IN /\ cmyk.k = U8_MAX - max
           /\ cmyk.c = HalfUp(rgb.r, max)
           /\ cmyk.m = HalfUp(rgb.g, max)
           /\ cmyk.y = HalfUp(rgb.b, max)
           /\ \A x \in {cmyk.c, cmyk.m, cmyk.y, cmyk.k} : x \in 0..U8_MAX

----------------------------------------------------------------------------
\* Properties of the raw encodings and of interpolation (SpecCmyk)

\* C8: hex() places C in bits 31-24, M in 23-16, Y in 15-8, K in 7-0;
\* Cmyk::from(v.hex()) = v and Cmyk::from(v.octets()) = v for every color v;
\* Cmyk::from(h).hex() = h for every u32 h.
C8_RawEncodingsAreInverse ==
    /\ op = "Cmyk::hex" =>
          /\ out.hi \div 2^8 = cmyk.c
          /\ out.hi % 2^8 = cmyk.m
          /\ out.lo \div 2^8 = cmyk.y
          /\ out.lo % 2^8 = cmyk.k
          /\ Cmyk_from_u32(out) = cmyk
    /\ op = "Cmyk::octets" => Cmyk_from_octets(out) = cmyk
    /\ op = "Cmyk::from<u32>" => Cmyk_hex(cmyk) = args[2]

C8_Witness ==
    /\ op = "Cmyk::hex"
    /\ cmyk = DocLerpStart
    /\ out = [hi |-> 127 * 2^8 + 255, lo |-> 64 * 2^8 + 100]

\* C9: each channel of linear_interpolate is the 8-bit interpolation of the
\* same channel of start and end, whatever the other channels are; the
\* doctest's colors at 0.65 give (54, 182, 86, 126).
C9_LerpIsComponentWise ==
    op = "Cmyk::linear_interpolate" =>
        LET s == args[2]
            e == args[3]
            t == Amount(args[4])
        IN /\ cmyk.c = lerp_u8(s.c, e.c, t)
           /\ cmyk.m = lerp_u8(s.m, e.m, t)
           /\ cmyk.y = lerp_u8(s.y, e.y, t)
           /\ cmyk.k = lerp_u8(s.k, e.k, t)
           /\ \A x \in {0, U8_MAX} :
                  LET z == U8_MAX - x
                  IN /\ Cmyk_linear_interpolate([s EXCEPT !.m = x, !.y = x, !.k = x],
                                                [e EXCEPT !.m = z, !.y = z, !.k = z], t).c = cmyk.c
                     /\ Cmyk_linear_interpolate([s EXCEPT !.c = x, !.y = x, !.k = x],
                                                [e EXCEPT !.c = z, !.y = z, !.k = z], t).m = cmyk.m
                     /\ Cmyk_linear_interpolate([s EXCEPT !.c = x, !.m = x, !.k = x],
                                                [e EXCEPT !.c = z, !.m = z, !.k = z], t).y = cmyk.y
                     /\ Cmyk_linear_interpolate([s EXCEPT !.c = x, !.m = x, !.y = x],
                                                [e EXCEPT !.c = z, !.m = z, !.y = z], t).k = cmyk.k
           /\ (s = DocLerpStart /\ e = DocLerpEnd /\ args[4] = DocLerpAmount) =>
                  cmyk = Cmyk_new(54, 182, 86, 126)

C9_Witness ==
    /\ op = "Cmyk::linear_interpolate"
    /\ args[2] = DocLerpStart /\ args[3] = DocLerpEnd /\ args[4] = DocLerpAmount
    /\ cmyk = Cmyk_new(54, 182, 86, 126)

\* The exact value a + (b - a) * clamp(t, 0, 1) for t = num/den, times den.
ClampNum(t) == IF t[1] < 0 THEN 0 ELSE IF t[1] > t[2] THEN t[2] ELSE t[1]
LerpTimesDen(a, b, t) == a * t[2] + (b - a) * ClampNum(t)

\* C10 as stated: each channel of linear_interpolate is a + (b - a) * clamp(t, 0, 1)
\* rounded to the nearest integer.
C10_LerpRoundsToNearest ==
    op = "Cmyk::linear_interpolate" =>
        LET s == args[2]
            e == args[3]
            t == args[4]
            nearest(x, a, b) == 2 * Abs(x * t[2] - LerpTimesDen(a, b, t)) <= t[2]
        IN /\ nearest(cmyk.c, s.c, e.c)
           /\ nearest(cmyk.m, s.m, e.m)
           /\ nearest(cmyk.y, s.y, e.y)
           /\ nearest(cmyk.k, s.k, e.k)

\* An amount that f32 holds exactly: the interpolation is then exact in f32.
IsDyadic(t) == t[2] \in {2^i : i \in 0..8}

\* C10 amended: each channel of linear_interpolate is the f32 value
\* a + (b - a) * clamp(t, 0, 1) truncated toward zero; for an amount that f32
\* holds exactly it is the floor of the exact value.
C10_LerpTruncates ==
    op = "Cmyk::linear_interpolate" =>
        LET s == args[2]
            e == args[3]
            t == args[4]
            trunc(x, a, b) ==
                LET v == lerp_f32(F32FromInt(a), F32FromInt(b), Amount(t))
                IN F32Le(F32FromInt(x), v) /\ F32Lt(v, F32FromInt(x + 1))
            floor(x, a, b) ==
                IsDyadic(t) => /\ x * t[2] <= LerpTimesDen(a, b, t)
                               /\ LerpTimesDen(a, b, t) < (x + 1) * t[2]
        IN \A ch \in {<<cmyk.c, s.c, e.c>>, <<cmyk.m, s.m, e.m>>,
                      <<cmyk.y, s.y, e.y>>, <<cmyk.k, s.k, e.k>>} :
               trunc(ch[1], ch[2], ch[3]) /\ floor(ch[1], ch[2], ch[3])

C10_Witness ==
    /\ op = "Cmyk::linear_interpolate"
    /\ args[2].m = 255 /\ args[3].m = 144 /\ args[4] = <<65, 100>>
    /\ cmyk.m = 182

----------------------------------------------------------------------------
\* Linear interpolation of the three types (SpecLerp)

\* The colors of the doctests of Hsv::linear_interpolate and Xyz::linear_interpolate.
DocHsvStart == Hsv_new(Lit(<<34, 1>>), Lit(<<63, 100>>), Lit(<<35, 100>>)).val
DocHsvEnd == Hsv_new(Lit(<<322, 1>>), Lit(<<14, 100>>), Lit(<<95, 100>>)).val
DocXyzStart == Xyz_new(Lit(<<24, 100>>), Lit(<<68, 100>>), Lit(<<91, 100>>))
DocXyzEnd == Xyz_new(Lit(<<84, 100>>), Lit(<<228, 1000>>), Lit(<<455, 1000>>))

LerpCalls ==
    {<<"Cmyk::linear_interpolate", s, e, t>> : s \in LerpStarts, e \in LerpEnds, t \in Amounts}
        \cup {<<"Hsv::linear_interpolate", s, e, t>> :
                 s \in HsvColors \cup {DocHsvStart, DocHsvEnd},
                 e \in HsvEnds \cup {DocHsvStart, DocHsvEnd}, t \in Amounts}
        \cup {<<"Xyz::linear_interpolate", s, e, t>> :
                 s \in XyzColors \cup {DocXyzStart, DocXyzEnd},
                 e \in XyzEnds \cup {DocXyzStart, DocXyzEnd}, t \in Amounts}

NextLerp ==
    \/ CmykLinearInterpolate
    \/ HsvLinearInterpolate
    \/ XyzLinearInterpolate

SpecLerp == Start(LerpCalls) /\ [][NextLerp]_vars

IsLerp == op \in {"Cmyk::linear_interpolate", "Hsv::linear_interpolate",
                  "Xyz::linear_interpolate"}
AtOrBelowZero(t) == t[1] <= 0
AtOrAboveOne(t) == t[1] >= t[2]

\* The f32 value of start + (end - start), and its distance to end.
StartPlusDifference(a, b) == F32Add(a, F32Sub(b, a))
F32Max(a, b) == IF F32Lt(a, b) THEN b ELSE a
WithinRounding(x, a, b) ==
    F32Le(F32Abs(F32Sub(x, b)),
          F32Mul([m |-> 2^23, e |-> -45], F32Max(F32Abs(a), F32Abs(b))))

----------------------------------------------------------------------------
\* Distance of the three types (SpecDistance)

\* The colors of the doctest of Cmyk::distance.
DocCmykStart == Cmyk_new(127, 64, 255, 100)
DocCmykEnd == Cmyk_new(15, 99, 144, 140)

\* Xyz values as Xyz::from([f32; 3]) builds them: any f32, unclamped.
RawInputs == {<<0, 1>>, <<1, 2>>, <<3, 2>>, <<-1, 2>>} \cup NonFiniteInputs
XyzRawColors ==
    {Xyz_from_components(<<Lit(x), Lit(y), Lit(z)>>) :
        x \in RawInputs, y \in {<<0, 1>>, <<1, 2>>}, z \in {<<1, 1>>, <<23, 100>>}}
        \cup {DocXyzStart, DocXyzEnd}
CmykDistanceColors == {Pair(b, b) : b \in WideBytes} \cup {DocCmykStart, DocCmykEnd}
HsvDistanceColors == HsvColors \cup HsvEnds \cup {DocHsvStart, DocHsvEnd}

\* The last bit of sin_cos: the same function in every call of one run.
Libm == {-1, 0, 1}

DistanceCalls ==
    {<<"Cmyk::distance", a, b>> : a \in CmykDistanceColors, b \in CmykDistanceColors}
        \cup {<<"Hsv::distance", a, b, n>> :
                 a \in HsvDistanceColors, b \in HsvDistanceColors, n \in Libm}
        \cup {<<"Xyz::distance", a, b>> : a \in XyzRawColors, b \in XyzRawColors}

\* out: the distance.
DistanceReturn(d) ==
    /\ out' = d
    /\ op' = args[1]
    /\ UNCHANGED <<cmyk, hsv, xyz, args, panicked>>

CmykDistance ==
    /\ Calling("Cmyk::distance")
    /\ DistanceReturn(Cmyk_distance(args[2], args[3]))

HsvDistance ==
    /\ Calling("Hsv::distance")
    /\ DistanceReturn(Hsv_distance(args[2], args[3], args[4]))

XyzDistance ==
    /\ Calling("Xyz::distance")
    /\ DistanceReturn(Xyz_distance(args[2], args[3]))

NextDistance ==
    \/ CmykDistance
    \/ HsvDistance
    \/ XyzDistance

SpecDistance == Start(DistanceCalls) /\ [][NextDistance]_vars

IsDistance == op \in {"Cmyk::distance", "Hsv::distance", "Xyz::distance"}

\* The distance of the same two colors in the other order.
Reversed ==
    IF op = "Cmyk::distance" THEN Cmyk_distance(args[3], args[2])
    ELSE IF op = "Hsv::distance" THEN Hsv_distance(args[3], args[2], args[4])
    ELSE Xyz_distance(args[3], args[2])

AllFinite(v) ==
    IF op = "Cmyk::distance" THEN TRUE
    ELSE IF op = "Hsv::distance" THEN is_finite(v.h) /\ is_finite(v.s) /\ is_finite(v.v)
    ELSE is_finite(v.x) /\ is_finite(v.y) /\ is_finite(v.z)

----------------------------------------------------------------------------
\* The hue of Hsv::new, Hsv::set_hue and Hsv::from([f32; 3]) (SpecHsv)

TakesHue == op \in {"Hsv::new", "Hsv::set_hue", "Hsv::from<[f32; 3]>"}

\* The hue the call was given.
GivenHue ==
    IF op = "Hsv::set_hue" THEN Lit(args[3])
    ELSE IF op = "Hsv::new" THEN Lit(args[2])
    ELSE Lit(args[2][1])

\* The literal of the call's hue, <<num, den>>.
GivenHueLit ==
    IF op = "Hsv::set_hue" THEN args[3]
    ELSE IF op = "Hsv::new" THEN args[2]
    ELSE args[2][1]

\* C17: for a finite hue h >= 0, Hsv::new and Hsv::set_hue (and
\* Hsv::from([f32; 3]), which calls new) store h - 360 * floor(h / 360): h
\* itself when h < 360, 1 for 361 and 0 for 360.
C17_HueIsReducedModulo360 ==
    (TakesHue /\ GivenHueLit[2] # 0 /\ GivenHueLit[1] >= 0 /\ IsDyadic(GivenHueLit)) =>
        LET num == GivenHueLit[1]
            den == GivenHueLit[2]
        IN /\ ~panicked
           /\ hsv.h = Lit(<<num % (360 * den), den>>)
           /\ num < 360 * den => hsv.h = GivenHue
           /\ GivenHueLit = <<361, 1>> => hsv.h = F32FromInt(1)
           /\ GivenHueLit = <<360, 1>> => hsv.h = F32Zero

C17_Witness ==
    /\ op = "Hsv::set_hue"
    /\ GivenHueLit = <<1441, 2>>
    /\ hsv.h = F32Lit(1, 2)
    /\ hsv.s = args[2].s /\ hsv.v = args[2].v

\* C13: Hsv::set_hue panics if and only if the hue is NaN or an infinity, and
\* then h, s and v of the receiver are as they were before the call; Hsv::new
\* and Hsv::from([f32; 3]) panic for the same hues, whatever the saturation
\* and the value are.
C13_NonFiniteHuePanics ==
    TakesHue =>
        /\ panicked <=> GivenHue \in {F32NaN, F32Inf(1), F32Inf(-1)}
        /\ (op = "Hsv::set_hue" /\ panicked) => hsv = args[2]

C13_Witness ==
    /\ op = "Hsv::set_hue"
    /\ panicked
    /\ GivenHue = F32Inf(-1)
    /\ hsv = args[2]
    /\ hsv.s = F32FromInt(1) /\ hsv.h = F32FromInt(267)

----------------------------------------------------------------------------
\* Conversions between two types other than Rgb (SpecHub)

\* Rgb::from(Cmyk | Hsl | Hsv | Xyz) is not part of the three source files, and
\* neither is Hsl.  A call <<function, source, rgb>> carries the source and the
\* Rgb that Rgb::from returns for it; Rgb_from reads that result.
Rgb_from(source, rgb) == rgb

\* Direct formulas that bypass Rgb: an achromatic Hsv, the origin, black.
Hsv_from_direct(source, rgb) ==
    [panic |-> FALSE, val |-> [h |-> F32Zero, s |-> F32Zero, v |-> F32FromInt(1)]]

Hsv_from_Cmyk(cmyk_, rgb) == Hsv_from_Rgb_eval(Rgb_from(cmyk_, rgb))
Hsv_from_Hsl(hsl, rgb) == Hsv_from_Rgb_eval(Rgb_from(hsl, rgb))
Hsv_from_Xyz(xyz_, rgb) == Hsv_from_Rgb_eval(Rgb_from(xyz_, rgb))
Xyz_from_Cmyk(cmyk_, rgb) == Xyz_from_Rgb(Rgb_from(cmyk_, rgb))
Xyz_from_Hsl(hsl, rgb) == Xyz_from_Rgb(Rgb_from(hsl, rgb))
Xyz_from_Hsv(hsv_, rgb) == Xyz_from_Rgb(Rgb_from(hsv_, rgb))
Cmyk_from_Hsl(hsl, rgb) == Cmyk_from_Rgb(Rgb_from(hsl, rgb))

HubVals == {n \in RgbVals : n % (2 * RgbStep) = 0 \/ n \in {1, U8_MAX}}
HubRgbs == {[r |-> r, g |-> g, b |-> b] : r \in HubVals, g \in HubVals, b \in HubVals}
HslColors == {[h |-> Lit(<<134, 1>>), s |-> Lit(<<23, 100>>), l |-> Lit(<<55, 100>>)]}

HubCalls ==
    {<<"Hsv::from<Cmyk>", DocCmykStart, rgb>> : rgb \in HubRgbs}
        \cup {<<"Hsv::from<Hsl>", hsl, rgb>> : hsl \in HslColors, rgb \in HubRgbs}
        \cup {<<"Hsv::from<Xyz>", DocXyzStart, rgb>> : rgb \in HubRgbs}
        \cup {<<"Xyz::from<Cmyk>", DocCmykStart, rgb>> : rgb \in HubRgbs}
        \cup {<<"Xyz::from<Hsl>", hsl, rgb>> : hsl \in HslColors, rgb \in HubRgbs}
        \cup {<<"Xyz::from<Hsv>", DocHsvStart, rgb>> : rgb \in HubRgbs}
        \cup {<<"Cmyk::from<Hsl>", hsl, rgb>> : hsl \in HslColors, rgb \in HubRgbs}

HsvFromCmyk ==
    /\ Calling("Hsv::from<Cmyk>")
    /\ HsvReturn(Hsv_from_Cmyk(args[2], args[3]))

HsvFromHsl ==
    /\ Calling("Hsv::from<Hsl>")
    /\ HsvReturn(Hsv_from_Hsl(args[2], args[3]))

HsvFromXyz ==
    /\ Calling("Hsv::from<Xyz>")
    /\ HsvReturn(Hsv_from_Xyz(args[2], args[3]))

XyzFromCmyk ==
    /\ Calling("Xyz::from<Cmyk>")
    /\ XyzReturn(Xyz_from_Cmyk(args[2], args[3]))

XyzFromHsl ==
    /\ Calling("Xyz::from<Hsl>")
    /\ XyzReturn(Xyz_from_Hsl(args[2], args[3]))

XyzFromHsv ==
    /\ Calling("Xyz::from<Hsv>")
    /\ XyzReturn(Xyz_from_Hsv(args[2], args[3]))

CmykFromHsl ==
    /\ Calling("Cmyk::from<Hsl>")
    /\ cmyk' = Cmyk_from_Hsl(args[2], args[3])
    /\ op' = args[1]
    /\ UNCHANGED <<hsv, xyz, args, out, panicked>>

NextHub ==
    \/ HsvFromCmyk
    \/ HsvFromHsl
    \/ HsvFromXyz
    \/ XyzFromCmyk
    \/ XyzFromHsl
    \/ XyzFromHsv
    \/ CmykFromHsl

SpecHub == Start(HubCalls) /\ [][NextHub]_vars

\* C14: Hsv::from(cmyk | hsl | xyz), Xyz::from(cmyk | hsl | hsv) and
\* Cmyk::from(hsl) return what Hsv::from, Xyz::from and Cmyk::from return for
\* the Rgb that Rgb::from gives for the input, a value with finite components
\* that == compares equal to itself; none of them panics.
C14_ConversionsGoThroughRgb ==
    LET rgb == args[3]
    IN /\ op \in {"Hsv::from<Cmyk>", "Hsv::from<Hsl>", "Hsv::from<Xyz>"} =>
             /\ ~panicked
             /\ hsv = Hsv_from_Rgb(rgb)
             /\ is_finite(hsv.h) /\ is_finite(hsv.s) /\ is_finite(hsv.v)
       /\ op \in {"Xyz::from<Cmyk>", "Xyz::from<Hsl>", "Xyz::from<Hsv>"} =>
             /\ xyz = Xyz_from_Rgb(rgb)
             /\ is_finite(xyz.x) /\ is_finite(xyz.y) /\ is_finite(xyz.z)
       /\ op = "Cmyk::from<Hsl>" => cmyk = Cmyk_from_Rgb(rgb)

\* Xyz -> Rgb pure green -> Hsv (120, 1, 1).
C14_Witness ==
    /\ op = "Hsv::from<Xyz>"
    /\ args[3] = [r |-> 0, g |-> U8_MAX, b |-> 0]
    /\ hsv = [h |-> F32FromInt(120), s |-> F32FromInt(1), v |-> F32FromInt(1)]

----------------------------------------------------------------------------
\* Xyz::from(Rgb) (SpecXyz)

White == [r |-> U8_MAX, g |-> U8_MAX, b |-> U8_MAX]

\* A row of the matrix applied to the exact ratios r/255, g/255, b/255, in
\* units of 10^-5, with an error below 2 units.
RowTimes10To5(row, rgb) ==
    ((row[1] \div 100) * rgb.r + (row[2] \div 100) * rgb.g + (row[3] \div 100) * rgb.b)
        \div U8_MAX

Near(x, t, eps) == F32Le(F32Abs(F32Sub(x, Lit(t))), Lit(eps))

\* C15: Xyz::from(Rgb) is the linear map with rows (0.4124564, 0.3575761,
\* 0.1804375), (0.2126729, 0.7151522, 0.0721750) and (0.0193339, 0.1191920,
\* 0.9503041) on the ratios of the channels, to 5 units of 10^-5; black gives
\* (0, 0, 0) and white the row sums, within 10^-3 of (0.9505, 1.0000, 1.0891).
C15_FromRgbIsTheLinearMap ==
    op = "Xyz::from<Rgb>" =>
        LET rgb == args[2]
            close(x, row) ==
                Abs(F32Trunc(F32Mul(x, F32FromInt(10^5))) - RowTimes10To5(row, rgb)) <= 5
        IN /\ close(xyz.x, MatrixX) /\ close(xyz.y, MatrixY) /\ close(xyz.z, MatrixZ)
           /\ rgb = Black => xyz = [x |-> F32Zero, y |-> F32Zero, z |-> F32Zero]
           /\ rgb = White =>
                 /\ Near(xyz.x, <<9505, 10000>>, <<1, 1000>>)
                 /\ Near(xyz.y, <<1, 1>>, <<1, 1000>>)
                 /\ Near(xyz.z, <<10891, 10000>>, <<1, 1000>>)

\* White gives (0.95047, 1.0000001, 1.08883).
C15_Witness ==
    /\ op = "Xyz::from<Rgb>"
    /\ args[2] = White
    /\ Near(xyz.x, <<95047, 100000>>, <<1, 10^6>>)
    /\ xyz.y = [m |-> 2^23 + 1, e |-> -23]
    /\ Near(xyz.z, <<108883, 100000>>, <<1, 10^6>>)

----------------------------------------------------------------------------
\* Cmyk::from([f32; 4]) (SpecCmykRatios)

AllBytes == {Pair(b, b) : b \in 0..U8_MAX}

\* Arrays of ratios: literals in and out of [0, 1], and the ratios() of colors.
CmykRatiosCalls ==
    {<<"Cmyk::from<[f32; 4]>", <<Lit(c), Lit(m), Lit(y), Lit(k)>>>> :
        c \in RatioInputs, m \in RatioInputs, y \in RatioInputs, k \in RatioInputs}
        \cup {<<"Cmyk::from<[f32; 4]>", Cmyk_ratios(v)>> : v \in AllBytes}

CmykFromRatios ==
    /\ Calling("Cmyk::from<[f32; 4]>")
    /\ cmyk' = Cmyk_from_ratios(args[2])
    /\ op' = args[1]
    /\ UNCHANGED <<hsv, xyz, args, out, panicked>>

\* out: the ratios of the current color.
CmykRatios ==
    /\ op \notin {"call", "Cmyk::ratios"}
    /\ out' = Cmyk_ratios(cmyk)
    /\ op' = "Cmyk::ratios"
    /\ args' = <<"Cmyk::ratios", cmyk>>
    /\ UNCHANGED <<cmyk, hsv, xyz, panicked>>

NextCmykRatios ==
    \/ CmykFromRatios
    \/ CmykRatios

SpecCmykRatios == Start(CmykRatiosCalls) /\ [][NextCmykRatios]_vars

\* (x * 255 + 0.5) as u8 on the clamped ratio: the packing of Cmyk::from(Rgb).
PackHalfUp(x) ==
    F32AsU8(F32Add(F32Mul(F32FromInt(U8_MAX), clamped(x, F32FromInt(0), F32FromInt(1))),
                   F32Lit(1, 2)))

\* C16: Cmyk::from([f32; 4]) maps each ratio x to floor(255 * clamp(x, 0, 1) + 0.5),
\* the round-half-up packing of Cmyk::from(Rgb).
C16_RatiosRoundHalfUp ==
    op = "Cmyk::from<[f32; 4]>" =>
        /\ cmyk.c = PackHalfUp(args[2][1])
        /\ cmyk.m = PackHalfUp(args[2][2])
        /\ cmyk.y = PackHalfUp(args[2][3])
        /\ cmyk.k = PackHalfUp(args[2][4])

----------------------------------------------------------------------------
\* The field mutators of the three types (SpecMutators)

CmykSetReturn(result) ==
    /\ cmyk' = result
    /\ op' = args[1]
    /\ UNCHANGED <<hsv, xyz, args, out, panicked>>

CmykSetCyan ==
    /\ Calling("Cmyk::set_cyan")
    /\ CmykSetReturn(Cmyk_set_cyan(args[2], args[3]))

CmykSetMagenta ==
    /\ Calling("Cmyk::set_magenta")
    /\ CmykSetReturn(Cmyk_set_magenta(args[2], args[3]))

CmykSetYellow ==
    /\ Calling("Cmyk::set_yellow")
    /\ CmykSetReturn(Cmyk_set_yellow(args[2], args[3]))

CmykSetKey ==
    /\ Calling("Cmyk::set_key")
    /\ CmykSetReturn(Cmyk_set_key(args[2], args[3]))

CmykSetters == {"Cmyk::set_cyan", "Cmyk::set_magenta", "Cmyk::set_yellow", "Cmyk::set_key"}
HsvSetters == {"Hsv::set_hue", "Hsv::set_saturation", "Hsv::set_value"}
XyzSetters == {"Xyz::set_x", "Xyz::set_y", "Xyz::set_z"}

MutatorCalls ==
    {<<f, self, v>> : f \in CmykSetters, self \in CmykDistanceColors,
                      v \in LowHigh \cup WideBytes}
        \cup {c \in HsvCalls : c[1] \in HsvSetters}
        \cup {c \in XyzCalls : c[1] \in XyzSetters}

NextMutators ==
    \/ CmykSetCyan
    \/ CmykSetMagenta
    \/ CmykSetYellow
    \/ CmykSetKey
    \/ HsvSetHue
    \/ HsvSetSaturation
    \/ HsvSetValue
    \/ XyzSetX
    \/ XyzSetY
    \/ XyzSetZ

SpecMutators == Start(MutatorCalls) /\ [][NextMutators]_vars

----------------------------------------------------------------------------
\* Cmyk::cubic_interpolate (SpecCmykCubic)

\* The doctest of Cmyk::cubic_interpolate.
DocCerpStart == Cmyk_new(24, 68, 91, 22)
DocCerpEnd == Cmyk_new(84, 228, 155, 78)
DocCerpAmount == <<39, 100>>

CmykCubicCalls ==
    {<<"Cmyk::cubic_interpolate", s, e, ss, es, t>> :
        s \in {Pair(a, a) : a \in LowHigh \cup WideBytes} \cup {DocCerpStart},
        e \in {Pair(b, U8_MAX - b) : b \in LowHigh} \cup {DocCerpEnd},
        ss \in SlopeInputs, es \in SlopeInputs, t \in Amounts \cup {DocCerpAmount}}

CmykCubicInterpolate ==
    /\ Calling("Cmyk::cubic_interpolate")
    /\ cmyk' = Cmyk_cubic_interpolate(args[2], args[3], Lit(args[4]), Lit(args[5]),
                                      Amount(args[6]))
    /\ op' = args[1]
    /\ UNCHANGED <<hsv, xyz, args, out, panicked>>

NextCmykCubic ==
    \/ CmykCubicInterpolate
    \/ CmykOctets

SpecCmykCubic == Start(CmykCubicCalls) /\ [][NextCmykCubic]_vars

\* The exact Hermite value at clamp(t, 0, 1) for t = num/den, times den^3; the
\* slopes are integers.
HermiteTimesDen3(a, b, sa, sb, t) ==
    LET n == ClampNum(t)
        d == t[2]
    IN (2 * n^3 - 3 * n^2 * d + d^3) * a + (n^3 - 2 * n^2 * d + n * d^2) * sa
           + (3 * n^2 * d - 2 * n^3) * b + (n^3 - n^2 * d) * sb

\* The channels with the start, the end and the exact value times den^3.
CerpChannels ==
    LET s == args[2]
        e == args[3]
        H(a, b) == HermiteTimesDen3(a, b, args[4][1], args[5][1], args[6])
    IN {<<cmyk.c, H(s.c, e.c)>>, <<cmyk.m, H(s.m, e.m)>>, <<cmyk.y, H(s.y, e.y)>>,
        <<cmyk.k, H(s.k, e.k)>>}

IsDocCerp ==
    /\ args[2] = DocCerpStart /\ args[3] = DocCerpEnd
    /\ args[4] = <<0, 1>> /\ args[5] = <<0, 1>> /\ args[6] = DocCerpAmount

\* C19 as stated: each channel of Cmyk::cubic_interpolate is the Hermite value
\* at clamp(amount, 0, 1) rounded to the nearest 8-bit integer; the doctest's
\* colors at 0.39 give (44, 122, 112, 40).
C19_CerpRoundsToNearest ==
    op = "Cmyk::cubic_interpolate" =>
        LET d3 == args[6][2]^3
        IN /\ \A ch \in CerpChannels :
                  (0 <= ch[2] /\ ch[2] <= U8_MAX * d3) => 2 * Abs(ch[1] * d3 - ch[2]) <= d3
           /\ IsDocCerp => cmyk = Cmyk_new(44, 122, 112, 40)

\* C19 amended: each channel of Cmyk::cubic_interpolate is the Hermite value at
\* clamp(amount, 0, 1), computed in f32 from the channel of start and of end
\* alone, truncated toward zero and kept in 0..255: within 1 below the exact
\* value, and its floor for an amount that f32 holds exactly; the doctest's
\* colors at 0.39 give (44, 122, 112, 40), where the nearest integers are
\* (44, 122, 113, 41).
C19_CerpTruncates ==
    op = "Cmyk::cubic_interpolate" =>
        LET s == args[2]
            e == args[3]
            d3 == args[6][2]^3
            f32(a, b) == cerp_f32(F32FromInt(a), F32FromInt(b), Lit(args[4]), Lit(args[5]),
                                  Amount(args[6]))
            trunc(x, v) == IF F32Lt(v, F32FromInt(0)) THEN x = 0
                           ELSE IF F32Le(F32FromInt(U8_MAX + 1), v) THEN x = U8_MAX
                           ELSE F32Le(F32FromInt(x), v) /\ F32Lt(v, F32FromInt(x + 1))
        IN /\ trunc(cmyk.c, f32(s.c, e.c)) /\ trunc(cmyk.m, f32(s.m, e.m))
           /\ trunc(cmyk.y, f32(s.y, e.y)) /\ trunc(cmyk.k, f32(s.k, e.k))
           /\ \A ch \in CerpChannels :
                  /\ (0 <= ch[2] /\ ch[2] < U8_MAX * d3) =>
                         Abs(ch[1] * d3 - ch[2]) <= d3
                  /\ (IsDyadic(args[6]) /\ 0 <= ch[2] /\ ch[2] < (U8_MAX + 1) * d3) =>
                         ch[1] * d3 <= ch[2] /\ ch[2] < (ch[1] + 1) * d3
           /\ IsDocCerp => cmyk = Cmyk_new(44, 122, 112, 40)

C19_Witness ==
    /\ op = "Cmyk::cubic_interpolate"
    /\ IsDocCerp
    /\ cmyk = Cmyk_new(44, 122, 112, 40)
    /\ 2 * (113 * 10^6 - HermiteTimesDen3(91, 155, 0, 0, DocCerpAmount)) < 10^6

----------------------------------------------------------------------------
\* Value and saturation of Hsv::from(Rgb) (SpecHsvRgb)

Min3(a, b, c) == IF a <= b /\ a <= c THEN a ELSE IF b <= c THEN b ELSE c
RgbMin(rgb) == Min3(rgb.r, rgb.g, rgb.b)
Ratio(channel) == F32Div(F32FromInt(channel), F32FromInt(U8_MAX))

\* C20: Hsv::from(Rgb) stores the largest ratio as value; when the largest and
\* the smallest channel are equal the result is h = 0, s = 0, v = max exactly;
\* otherwise the saturation is (max - min) / max, in (0, 1], to 10^-5 of the
\* exact quotient, and the test `max nearly 0` of that branch is false.
C20_ValueAndSaturation ==
    op = "Hsv::from<Rgb>" =>
        LET max == RgbMax(args[2])
            min == RgbMin(args[2])
        IN /\ ~panicked
           /\ hsv.v = Ratio(max)
           /\ max = min => /\ out.branch = "gray"
                           /\ hsv.h = F32Zero /\ hsv.s = F32Zero
           /\ max # min =>
                 /\ out.branch = "color"
                 /\ ~out.max_near_zero
                 /\ hsv.s = F32Div(F32Sub(Ratio(max), Ratio(min)), Ratio(max))
                 /\ F32Lt(F32Zero, hsv.s) /\ F32Le(hsv.s, F32FromInt(1))
                 /\ Abs(F32Trunc(F32Mul(hsv.s, F32FromInt(10^5)))
                            - ((max - min) * 10^5) \div max) <= 1

\* The darkest color that is not gray: max = 1/255, saturation 1.
C20_Witness ==
    /\ op = "Hsv::from<Rgb>"
    /\ args[2] = [r |-> 0, g |-> 1, b |-> 0]
    /\ out.branch = "color" /\ ~out.max_near_zero
    /\ hsv = [h |-> F32FromInt(120), s |-> F32FromInt(1), v |-> Ratio(1)]

----------------------------------------------------------------------------
\* Cmyk::distance (SpecDistance)

\* The sum of the squares of the differences of the channels, in the integers.
SquaredDistance(a, b) ==
    (a.c - b.c)^2 + (a.m - b.m)^2 + (a.y - b.y)^2 + (a.k - b.k)^2

\* C21: Cmyk::distance(a, b) is the square root of (a.c-b.c)^2 + (a.m-b.m)^2 +
\* (a.y-b.y)^2 + (a.k-b.k)^2 taken in the integers, without 8-bit wrap-around,
\* rounded to f32: 27690 and 166.40312 for the doctest's colors; it is 0 only
\* for a = b and at most 510.
C21_CmykDistanceIsEuclidean ==
    op = "Cmyk::distance" =>
        LET a == args[2]
            b == args[3]
            sq == SquaredDistance(a, b)
            whole == F32Trunc(out)
        IN /\ out = F32Sqrt(F32FromInt(sq))
           /\ whole^2 <= sq /\ sq < (whole + 1)^2
           /\ out = F32Zero <=> a = b
           /\ F32Le(F32Zero, out) /\ F32Le(out, F32FromInt(2 * U8_MAX))
           /\ (a = DocCmykStart /\ b = DocCmykEnd) =>
                  sq = 27690 /\ out = Lit(<<16640312, 10^5>>)

C21_Witness ==
    /\ op = "Cmyk::distance"
    /\ args[2] = DocCmykStart /\ args[3] = DocCmykEnd
    /\ SquaredDistance(args[2], args[3]) = 27690
    /\ out = Lit(<<16640312, 10^5>>)

----------------------------------------------------------------------------
\* Hsv::distance (SpecDistance)

\* The distance of the two colors with their value replaced by 1.
AtFullValue(a, b, libm) ==
    Hsv_distance([a EXCEPT !.v = F32FromInt(1)], [b EXCEPT !.v = F32FromInt(1)], libm)

\* C22: two Hsv colors with value 0 and the same saturation are at distance 0
\* whatever their hues are, so distinct colors can be at distance 0; the
\* distance of two colors with the same saturation and the same value v is v
\* times their distance at value 1: exactly for v = 1/2, and to 2^-20 v for
\* every v.
C22_HueCountsInProportionToValue ==
    op = "Hsv::distance" =>
        LET a == args[2]
            b == args[3]
            scaled == F32Mul(a.v, AtFullValue(a, b, args[4]))
        IN /\ (a.v = F32Zero /\ b.v = F32Zero /\ a.s = b.s) => out = F32Zero
           /\ (a.s = b.s /\ a.v = b.v) =>
                 /\ a.v = F32Lit(1, 2) => out = scaled
                 /\ F32Le(F32Abs(F32Sub(out, scaled)), F32Mul(a.v, [m |-> 2^23, e |-> -43]))

\* Two distinct colors at distance 0.
C22_Witness ==
    /\ op = "Hsv::distance"
    /\ args[2] = [h |-> F32FromInt(134), s |-> F32Lit(1, 2), v |-> F32Zero]
    /\ args[3] = [h |-> F32FromInt(267), s |-> F32Lit(1, 2), v |-> F32Zero]
    /\ out = F32Zero

----------------------------------------------------------------------------
\* The key and the inks of Cmyk::from(Rgb) (SpecCmykRgb)

\* C23: for every Rgb, Cmyk::from(Rgb) has k = 255 - max(r, g, b), a zero ink
\* for every channel that is the maximum, and so min(c, m, y) = 0.
C23_FromRgbIsCanonical ==
    op = "Cmyk::from<Rgb>" =>
        LET rgb == args[2]
            max == RgbMax(rgb)
        IN /\ cmyk.k = U8_MAX - max
           /\ rgb.r = max => cmyk.c = 0
           /\ rgb.g = max => cmyk.m = 0
           /\ rgb.b = max => cmyk.y = 0
           /\ Min3(cmyk.c, cmyk.m, cmyk.y) = 0

\* Red and green both the maximum: no cyan, no magenta, some yellow.
C23_Witness ==
    /\ op = "Cmyk::from<Rgb>"
    /\ args[2] = [r |-> 30, g |-> 30, b |-> 15]
    /\ cmyk.c = 0 /\ cmyk.m = 0 /\ cmyk.y > 0
    /\ cmyk.k = 225

----------------------------------------------------------------------------
\* The derived order and equality of Cmyk (SpecCmykOrder)

\* The colors with every channel 0 or 255, and the start of the doctest.
Corners ==
    {Cmyk_new(c, m, y, k) : c \in {0, U8_MAX}, m \in {0, U8_MAX}, y \in {0, U8_MAX},
                            k \in {0, U8_MAX}} \cup {DocLerpStart}

CmykOrderCalls ==
    {<<f, a, b>> : f \in {"Cmyk::lt", "Cmyk::eq"}, a \in CmykInputs, b \in Corners}

\* out: the result of the comparison.
CmykLt ==
    /\ Calling("Cmyk::lt")
    /\ out' = Cmyk_lt(args[2], args[3])
    /\ op' = args[1]
    /\ UNCHANGED <<cmyk, hsv, xyz, args, panicked>>

CmykEq ==
    /\ Calling("Cmyk::eq")
    /\ out' = Cmyk_eq(args[2], args[3])
    /\ op' = args[1]
    /\ UNCHANGED <<cmyk, hsv, xyz, args, panicked>>

NextCmykOrder ==
    \/ CmykLt
    \/ CmykEq

SpecCmykOrder == Start(CmykOrderCalls) /\ [][NextCmykOrder]_vars

\* C24: a < b in the derived order of Cmyk if and only if a.hex() < b.hex() as
\* u32, and a == b if and only if a.hex() == b.hex(); of two colors exactly
\* one of a < b, a == b and b < a holds.
C24_OrderIsTheOrderOfHex ==
    LET a == args[2]
        b == args[3]
    IN /\ op = "Cmyk::lt" =>
             /\ out <=> U32Lt(Cmyk_hex(a), Cmyk_hex(b))
             /\ out => ~Cmyk_lt(b, a) /\ ~Cmyk_eq(a, b)
             /\ ~out => Cmyk_lt(b, a) \/ Cmyk_eq(a, b)
       /\ op = "Cmyk::eq" => (out <=> Cmyk_hex(a) = Cmyk_hex(b))

\* The first field decides: (254, 255, 255, 255) < (255, 0, 0, 0).
C24_Witness ==
    /\ op = "Cmyk::lt"
    /\ args[2] = Cmyk_new(254, 255, 255, 255)
    /\ args[3] = Cmyk_new(255, 0, 0, 0)
    /\ out = TRUE

====
